---- MODULE Spec2Model ----
(***************************************************************************)
(* State-machine model of the MP4 converter front end (src/src/App.tsx):   *)
(* the React state of App (files, outputDir, ffmpegAvailable,              *)
(* isConverting), the conversion-progress listener effect, the add-files   *)
(* loop, single and batch conversion, and removal of entries.  The Tauri   *)
(* back end (src-tauri, not part of the sources at hand) is modelled from  *)
(* the specification: one transcode task per task id, a progress event     *)
(* stream per task id and the reply of each invoke.                        *)
(***************************************************************************)
EXTENDS Integers, Sequences, FiniteSets, TLC

VARIABLES
    files,            \* useState<FileItem[]>            App.tsx:37
    outputDir,        \* useState<string>                App.tsx:38
    ffmpegAvailable,  \* useState<boolean | null>        App.tsx:39
    isConverting,     \* useState(false)                 App.tsx:40
    batch,            \* ids of the files handed to Promise.all (App.tsx:208, 226)
    waiting,          \* those of batch whose convertSingleFile promise is unsettled
    pendingListen,    \* listen() calls of the current effect whose promise is unresolved
    staleListen,      \* listen() calls of cleaned-up effects whose promise is unresolved
    orphaned,         \* registered listeners no cleanup will ever unregister
    picks,            \* add-files loops: the paths picked and the loop position
    nextId,           \* next value crypto.randomUUID() hands out
    conv,             \* back end: the transcode task of every task id
    requested,        \* number of cmd_convert_video requests issued per task id
    disk,             \* back end: output files present in the output directory
    deleteJob,        \* the delete in progress: the snapshots still to delete
    descriptor,       \* back end: the media descriptor of the file being probed
    host_caps,        \* back end: the host exposes a working hardware H.264 encoder
    needs_conversion, \* back end: the result of classify, once computed
    plan,             \* back end: the encode plan, once built
    host,             \* download script: process.platform, process.arch and what is installed
    binaries,         \* download script: what exists of BINARIES_DIR and the two destinations
    script            \* download script: where main() is, and how it exited

\* the state of the application
appVars == <<files, outputDir, ffmpegAvailable, isConverting, batch, waiting, pendingListen,
             staleListen, orphaned, picks, nextId, conv, requested, disk, deleteJob>>

\* the state of one probe-classify-plan run of the back end
planVars == <<descriptor, host_caps, needs_conversion, plan>>

\* the state of the binary-download script and of the machine it runs on
scriptVars == <<host, binaries, script>>

vars == <<appVars, planVars, scriptVars>>

listenerVars == <<pendingListen, staleListen, orphaned>>

----------------------------------------------------------------------------
(* Bounds of the model *)

\* number of task ids crypto.randomUUID() hands out in one run
MaxIds == 2
\* number of add-files loops in progress at once
MaxPicks == 1
\* the same, where progress events are left out
MaxLoops == 2
\* number of paths picked in one dialog
MaxPick == 2
\* saturation of the per-id request counter
MaxRequests == 2

(* Program constants *)

\* progress of a completed entry
Full == 100

Ids == 1..MaxIds

\* Input paths the dialog can return: two with the same base name in different
\* folders, and one the probe tool cannot read.
GoodPaths == {[dir |-> "/a", base |-> "clip"], [dir |-> "/b", base |-> "clip"]}
BadPaths == {[dir |-> "/a", base |-> "broken"]}
Paths == GoodPaths \cup BadPaths

\* The output directories the directory dialog can return.
Dirs == {"/out"}

\* what the directory dialog returns when it is cancelled (null)
NoSelection == ""

\* App.tsx:134-137: what the directory dialog can return
DirChoices == Dirs \cup {NoSelection}

\* Progress values a progress event can carry.
ProgressValues == {50}

NoPath == <<>>

\* an add-files loop that is not running
NoPick == [sel |-> <<>>, pos |-> 1]

----------------------------------------------------------------------------
(* Helpers over the file list *)

IdsOf(fs) == {fs[i].id : i \in DOMAIN fs}

PathsOf(fs) == {fs[i].path : i \in DOMAIN fs}

InList(fs, id) == id \in IdsOf(fs)

Entry(fs, id) == fs[CHOOSE i \in DOMAIN fs : fs[i].id = id]

ConvertingIds(fs) == {fs[i].id : i \in {j \in DOMAIN fs : fs[j].status = "converting"}}

SelectedCount(fs) == Cardinality({i \in DOMAIN fs : fs[i].selected})

PendingCount(fs) == Cardinality({i \in DOMAIN fs : fs[i].status = "pending"})

Min(a, b) == IF a < b THEN a ELSE b

----------------------------------------------------------------------------
(* The pure state updates of App.tsx *)

\* App.tsx:114-120: the entry built from a probe result
NewFile(path, id) ==
    [id |-> id, path |-> path, selected |-> FALSE, status |-> "pending",
     progress |-> 0, outputPath |-> NoPath, error |-> FALSE]

\* variant of AddFile without the prev.some test
AddFileUnchecked(fs, newFile) == Append(fs, newFile)

\* App.tsx:121-125: append unless the path is already listed
AddFile(fs, newFile) ==
    IF newFile.path \in PathsOf(fs) THEN fs ELSE Append(fs, newFile)

\* App.tsx:65-70: the status a progress event maps to
EventStatus(s) ==
    IF s = "completed" THEN "completed"
    ELSE IF s = "error" THEN "error"
    ELSE "converting"

\* variant of ApplyProgress without the f.id === file.id test
ApplyProgressToAll(fs, id, ev) ==
    [i \in DOMAIN fs |->
        [fs[i] EXCEPT !.progress = ev.progress,
                      !.status = EventStatus(ev.status),
                      !.outputPath = ev.output_path,
                      !.error = ev.error]]

\* App.tsx:59-76: the conversion-progress event handler
ApplyProgress(fs, id, ev) ==
    [i \in DOMAIN fs |->
        IF fs[i].id = id
        THEN [fs[i] EXCEPT !.progress = ev.progress,
                           !.status = EventStatus(ev.status),
                           !.outputPath = ev.output_path,
                           !.error = ev.error]
        ELSE fs[i]]

\* App.tsx:161-165
MarkConverting(fs, id) ==
    [i \in DOMAIN fs |->
        IF fs[i].id = id
        THEN [fs[i] EXCEPT !.status = "converting", !.progress = 0]
        ELSE fs[i]]

\* variant of ApplyCompleted that forgets progress: 100
ApplyCompletedKeepsProgress(fs, id, out) ==
    [i \in DOMAIN fs |->
        IF fs[i].id = id
        THEN [fs[i] EXCEPT !.status = "completed", !.outputPath = out]
        ELSE fs[i]]

\* App.tsx:174-180
ApplyCompleted(fs, id, out) ==
    [i \in DOMAIN fs |->
        IF fs[i].id = id
        THEN [fs[i] EXCEPT !.status = "completed", !.progress = Full,
                           !.outputPath = out]
        ELSE fs[i]]

\* variant of ApplyError without the f.id === file.id test on converting entries
ApplyErrorToAll(fs, id) ==
    [i \in DOMAIN fs |->
        IF fs[i].id = id \/ fs[i].status = "converting"
        THEN [fs[i] EXCEPT !.status = "error", !.error = TRUE]
        ELSE fs[i]]

\* App.tsx:182-188
ApplyError(fs, id) ==
    [i \in DOMAIN fs |->
        IF fs[i].id = id
        THEN [fs[i] EXCEPT !.status = "error", !.error = TRUE]
        ELSE fs[i]]

\* App.tsx:250-252 and App.tsx:240
RemoveById(fs, id) == SelectSeq(fs, LAMBDA f : f.id # id)

\* App.tsx:145-147
ToggleSelected(fs, id) ==
    [i \in DOMAIN fs |->
        IF fs[i].id = id THEN [fs[i] EXCEPT !.selected = ~fs[i].selected]
        ELSE fs[i]]

\* App.tsx:151-152
ToggleAll(fs) ==
    LET allSelected == \A i \in DOMAIN fs : fs[i].selected
    IN [i \in DOMAIN fs |-> [fs[i] EXCEPT !.selected = ~allSelected]]

\* App.tsx:193-195
SelectedPending(fs) == SelectSeq(fs, LAMBDA f : f.selected /\ f.status = "pending")

\* variant of PendingFiles that takes failed files along (a retry)
PendingOrFailedFiles(fs) ==
    SelectSeq(fs, LAMBDA f : f.status = "pending" \/ f.status = "error")

\* App.tsx:214
PendingFiles(fs) == SelectSeq(fs, LAMBDA f : f.status = "pending")

\* App.tsx:161-165 for every file of a batch (Promise.all over map, App.tsx:208)
RECURSIVE MarkAll(_, _)
MarkAll(fs, todo) ==
    IF todo = <<>> THEN fs
    ELSE MarkAll(MarkConverting(fs, Head(todo).id), Tail(todo))

----------------------------------------------------------------------------
(* The back end, modelled from the specification *)

\* spec 4.1: the probe succeeds on readable media files
Probeable(path) == path \in GoodPaths

\* variant of ResolveOutputPath that never looks at the existing files
ResolveOutputPathNoSuffix(path, d) == <<path.base, 0>>

\* spec 4.3: output path from the base name, with the first numeric suffix
\* for which no file exists
ResolveOutputPath(path, d) ==
    LET n == CHOOSE k \in 0..Cardinality(d) :
                 /\ <<path.base, k>> \notin d
                 /\ \A j \in 0..(k - 1) : <<path.base, j>> \in d
    IN <<path.base, n>>

NoTask == [phase |-> "none", out |-> NoPath, sent |-> 0, done |-> FALSE, result |-> FALSE]

\* spec 4.4 Pending -> Running: the task of a conversion request
NewTask(out) ==
    [phase |-> "running", out |-> out, sent |-> 0, done |-> FALSE, result |-> FALSE]

\* cmd_convert_video for every file of todo, in order: resolve the output path,
\* spawn the process (which creates the output file)
RECURSIVE StartEach(_, _, _)
StartEach(todo, c, d) ==
    IF todo = <<>> THEN [conv |-> c, disk |-> d]
    ELSE LET f == Head(todo)
             out == ResolveOutputPath(f.path, d)
         IN StartEach(Tail(todo), [c EXCEPT ![f.id] = NewTask(out)], d \cup {out})

\* spec 6: the payload of a progress event
ProgressPayload(p) ==
    [progress |-> p, status |-> "converting", output_path |-> NoPath, error |-> FALSE]

\* spec 4.4 Running -> Completed / Failed: the payload of the terminal event
TerminalPayload(t) ==
    IF t.phase = "ok"
    THEN [progress |-> Full, status |-> "completed", output_path |-> t.out, error |-> FALSE]
    ELSE [progress |-> t.sent, status |-> "error", output_path |-> NoPath, error |-> TRUE]

\* spec 6: the stream and format names the probe reports; NoAudio stands for
\* a file without an audio stream
VideoCodecs == {"h264", "hevc", "mpeg4"}
NoAudio == "none"
AudioCodecs == {"aac", "mp3", NoAudio}
Containers == {"mp4", "avi", "mkv"}

\* spec 3: the descriptors the prober can produce
Descriptors == [video : VideoCodecs, audio : AudioCodecs, container : Containers]

NoDescriptor == [video |-> "", audio |-> "", container |-> ""]

\* variant of Classify that takes a missing audio stream for a wrong codec
ClassifyAudioRequired(d) ==
    \/ d.video # "h264"
    \/ d.audio # "aac"
    \/ d.container # "mp4"

\* spec 4.2: classify(descriptor) -> needs_conversion
Classify(d) ==
    \/ d.video # "h264"
    \/ (d.audio # NoAudio /\ d.audio # "aac")
    \/ d.container # "mp4"

\* spec 4.3 and 6: the mode-specific arguments of the transcode tool
ModeArgs(mode) ==
    IF mode = "copy" THEN <<"-c", "copy">>
    ELSE IF mode = "hardware_encode" THEN <<"-c:v", "h264_hw", "-c:a", "aac">>
    ELSE <<"-c:v", "h264_sw", "-c:a", "aac">>

\* spec 4.3: the fast-start flag every mode appends
FastStart == <<"-movflags", "+faststart">>

\* variant of BuildPlan that looks at the host's encoder first
BuildPlanHardwareFirst(needs, caps) ==
    LET mode == IF caps THEN "hardware_encode"
                ELSE IF ~needs THEN "copy"
                ELSE "software_encode"
    IN [mode |-> mode, args |-> ModeArgs(mode) \o FastStart]

\* spec 4.3: build_plan(descriptor, host_caps), decision order 1-3
BuildPlan(needs, caps) ==
    LET mode == IF ~needs THEN "copy"
                ELSE IF caps THEN "hardware_encode"
                ELSE "software_encode"
    IN [mode |-> mode, args |-> ModeArgs(mode) \o FastStart]

----------------------------------------------------------------------------
(* The conversion-progress listener effect, App.tsx:50-85.  It runs again  *)
(* whenever setFiles installs a new array: the cleanup of the previous run *)
(* calls the unlisten functions collected so far (App.tsx:82-84), then     *)
(* listen() is called for every converting file (App.tsx:53-80).           *)
(*                                                                         *)
(* listen() is asynchronous.  Its promise resolves (App.tsx:78) either     *)
(* before the cleanup of its effect, and then the cleanup unregisters the  *)
(* listener, or after it, and then the unlisten function is pushed on an   *)
(* array nobody reads again.  The resolution of a promise is visible only  *)
(* at the next cleanup or at the next event of that task id, so it is      *)
(* decided there: pendingListen holds the listen() calls of the current    *)
(* effect, staleListen those that were still unresolved when their effect  *)
(* was cleaned up, orphaned the listeners registered after their cleanup.  *)
(* The effect is taken to run together with the state update that causes   *)
(* it.                                                                     *)

\* setFiles(newFiles), then the effect: the calls of pendingListen outside
\* resolved are each either resolved (and unregistered now) or still pending
\* (and stale from now on); resolved ones are unregistered by the cleanup
Rerender(newFiles, resolved, newOrphaned) ==
    /\ files' = newFiles
    /\ orphaned' = newOrphaned
    /\ pendingListen' = ConvertingIds(newFiles)
    /\ \E late \in SUBSET (pendingListen \ resolved) :
           staleListen' = (staleListen \cup late) \ newOrphaned

\* setFiles with an updater that returns a new array
SetFiles(newFiles) == Rerender(newFiles, {}, orphaned)

\* an event of task id reaches the webview (App.tsx:57-77): it is lost when
\* no listener is registered yet, handled by the listener of the current
\* effect, or handled by a listener that outlived its effect
Deliver(id, ev) ==
    \/ /\ id \notin orphaned
       /\ UNCHANGED <<files, listenerVars>>
    \/ /\ id \in pendingListen
       /\ Rerender(ApplyProgress(files, id, ev), {id}, orphaned)
    \/ /\ id \in staleListen \cup orphaned
       /\ Rerender(ApplyProgress(files, id, ev), {}, orphaned \cup {id})

----------------------------------------------------------------------------
(* The binary-download script, README.md:134-238 (scripts/download-ffmpeg) *)

\* number of times the script is run
MaxRuns == 2

\* README.md:143-154
GetTarget(arch, platform) ==
    <<IF arch = "arm64" THEN "aarch64" ELSE "x86_64",
      IF platform = "darwin" THEN "apple-darwin"
      ELSE IF platform = "win32" THEN "pc-windows-msvc"
      ELSE "unknown-linux-gnu">>

\* README.md:140
BinariesDir == <<"binaries">>

\* README.md:165
FfmpegDest(target) == <<"ffmpeg", target>>

\* README.md:166
FfprobeDest(target) == <<"ffprobe", target>>

\* the machines the script runs on: platform and architecture, whether
\* `which ffmpeg` and `which brew` succeed (179, 188), whether brew knows
\* ffmpeg (196) and can install it (199), and whether the two source
\* binaries exist where the script looks for them (208, 213); what `which`
\* has found exists
Hosts ==
    {h \in [platform : {"darwin", "linux", "win32"}, arch : {"arm64", "x64"},
            which : BOOLEAN, brew : BOOLEAN, brewFfmpeg : BOOLEAN, installs : BOOLEAN,
            ffmpegSrc : BOOLEAN, ffprobeSrc : BOOLEAN] :
        h.which => h.ffmpegSrc}

NoHost ==
    [platform |-> "", arch |-> "", which |-> FALSE, brew |-> FALSE, brewFfmpeg |-> FALSE,
     installs |-> FALSE, ffmpegSrc |-> FALSE, ffprobeSrc |-> FALSE]

\* what can exist before the first run: nothing, the directory, or the
\* directory with some of the two destination binaries
BinariesBefore(target) ==
    {{}} \cup {{BinariesDir} \cup d : d \in SUBSET {FfmpegDest(target), FfprobeDest(target)}}

\* main() is not running and has not run
IdleScript ==
    [pc |-> "idle", status |-> 0, why |-> "", copied |-> {}, made |-> {}, before |-> {},
     last |-> "", run |-> 0]

ScriptIdle ==
    /\ host = NoHost
    /\ binaries = {}
    /\ script = IdleScript

\* README.md:169
BothExist(b, target) == FfmpegDest(target) \in b /\ FfprobeDest(target) \in b

\* variant of BothExist that is content with the ffmpeg binary
FfmpegExists(b, target) == FfmpegDest(target) \in b

\* process.exit(1), README.md:192, 210, 215, 231, 237
Exit(why) == script' = [script EXCEPT !.pc = "exited", !.status = 1, !.why = why]

\* README.md:235: main() is called; before and last remember the files that
\* existed at the start of the run and how the run before ended, made the
\* files that earlier runs have copied
StartScript ==
    /\ script.pc \in {"idle", "exited"}
    /\ script.run < MaxRuns
    /\ script' = [pc |-> "mkdir", status |-> 0, why |-> "", copied |-> {},
                  made |-> script.made \cup script.copied,
                  before |-> binaries,
                  last |-> IF script.pc = "idle" THEN ""
                           ELSE IF script.status = 0 THEN "ok" ELSE "failed",
                  run |-> script.run + 1]
    /\ UNCHANGED <<appVars, planVars, host, binaries>>

\* README.md:161-163
MakeDir ==
    /\ script.pc = "mkdir"
    /\ binaries' = binaries \cup {BinariesDir}
    /\ script' = [script EXCEPT !.pc = "check"]
    /\ UNCHANGED <<appVars, planVars, host>>

\* variant of CheckExisting that skips the download when ffmpeg exists
CheckExistingFfmpegOnly ==
    /\ script.pc = "check"
    /\ script' = IF FfmpegExists(binaries, GetTarget(host.arch, host.platform))
                  THEN [script EXCEPT !.pc = "exited", !.status = 0]
                  ELSE [script EXCEPT !.pc = "platform"]
    /\ UNCHANGED <<appVars, planVars, host, binaries>>

\* README.md:168-172: both binaries exist already, main() returns
CheckExisting ==
    /\ script.pc = "check"
    /\ script' = IF BothExist(binaries, GetTarget(host.arch, host.platform))
                  THEN [script EXCEPT !.pc = "exited", !.status = 0]
                  ELSE [script EXCEPT !.pc = "platform"]
    /\ UNCHANGED <<appVars, planVars, host, binaries>>

\* README.md:174 and 229-232
CheckPlatform ==
    /\ script.pc = "platform"
    /\ IF host.platform = "darwin"
       THEN script' = [script EXCEPT !.pc = "locate"]
       ELSE Exit("platform")
    /\ UNCHANGED <<appVars, planVars, host, binaries>>

\* README.md:179-206: the sources are looked for on the PATH, then with brew;
\* a failing `brew install` throws and ends in main().catch (235-238)
Locate ==
    /\ script.pc = "locate"
    /\ IF host.which THEN script' = [script EXCEPT !.pc = "verify"]
       ELSE IF ~host.brew THEN Exit("tool")
       ELSE IF host.brewFfmpeg \/ host.installs THEN script' = [script EXCEPT !.pc = "verify"]
       ELSE Exit("tool")
    /\ UNCHANGED <<appVars, planVars, host, binaries>>

\* README.md:208-216
VerifySources ==
    /\ script.pc = "verify"
    /\ IF ~host.ffmpegSrc THEN Exit("source")
       ELSE IF ~host.ffprobeSrc THEN Exit("source")
       ELSE script' = [script EXCEPT !.pc = "copy_ffmpeg"]
    /\ UNCHANGED <<appVars, planVars, host, binaries>>

\* README.md:219-221: copyFileSync and chmodSync of ffmpeg; either can throw
\* (235-238), and a source that does not exist makes copyFileSync throw
CopyFfmpeg(ok) ==
    /\ script.pc = "copy_ffmpeg"
    /\ IF ok /\ host.ffmpegSrc
       THEN /\ binaries' = binaries \cup {FfmpegDest(GetTarget(host.arch, host.platform))}
            /\ script' = [script EXCEPT !.pc = "copy_ffprobe",
                            !.copied = @ \cup {FfmpegDest(GetTarget(host.arch, host.platform))}]
       ELSE /\ Exit("copy")
            /\ UNCHANGED binaries
    /\ UNCHANGED <<appVars, planVars, host>>

\* README.md:223-227
CopyFfprobe(ok) ==
    /\ script.pc = "copy_ffprobe"
    /\ IF ok /\ host.ffprobeSrc
       THEN /\ binaries' = binaries \cup {FfprobeDest(GetTarget(host.arch, host.platform))}
            /\ script' = [script EXCEPT !.pc = "exited", !.status = 0,
                            !.copied = @ \cup {FfprobeDest(GetTarget(host.arch, host.platform))}]
       ELSE /\ Exit("copy")
            /\ UNCHANGED binaries
    /\ UNCHANGED <<appVars, planVars, host>>

----------------------------------------------------------------------------
(* Start-up *)

AppInit ==
    /\ files = <<>>
    /\ outputDir = ""
    /\ ffmpegAvailable = "null"
    /\ isConverting = FALSE
    /\ batch = {}
    /\ waiting = {}
    /\ pendingListen = {}
    /\ staleListen = {}
    /\ orphaned = {}
    /\ picks = [k \in 1..MaxPicks |-> NoPick]
    /\ nextId = 1
    /\ conv = [id \in Ids |-> NoTask]
    /\ requested = [id \in Ids |-> 0]
    /\ disk = {}
    /\ deleteJob = <<>>

\* no probe-classify-plan run is looked at
PlanIdle ==
    /\ descriptor = NoDescriptor
    /\ host_caps = FALSE
    /\ needs_conversion = <<>>
    /\ plan = <<>>

Init == AppInit /\ PlanIdle /\ ScriptIdle

\* App.tsx:43-47: cmd_check_ffmpeg settles (false also when the invoke fails)
CheckFfmpeg(ok) ==
    /\ ffmpegAvailable = "null"
    /\ ffmpegAvailable' = IF ok THEN "true" ELSE "false"
    /\ UNCHANGED <<files, outputDir, isConverting, batch, waiting, listenerVars, picks, nextId,
                   conv, requested, disk, deleteJob,
                   planVars, scriptVars>>

----------------------------------------------------------------------------
(* Adding files, App.tsx:87-131 *)

\* what the file dialog can return: distinct paths, at most MaxPick of them
PickChoices ==
    {s \in UNION {[1..n -> Paths] : n \in 1..MaxPick} :
        \A i, j \in DOMAIN s : i # j => s[i] # s[j]}

\* App.tsx:111: the loop of slot k still has a path to probe
Probing(k) == picks[k].pos <= Len(picks[k].sel)

\* the path whose probe is in flight
Current(k) == picks[k].sel[picks[k].pos]

\* App.tsx:111: the loop moves on to the next path, or ends
Advance(k) ==
    picks' = [picks EXCEPT ![k] = IF picks[k].pos = Len(picks[k].sel) THEN NoPick
                                  ELSE [picks[k] EXCEPT !.pos = picks[k].pos + 1]]

\* variant of CanAddFiles that tests ffmpegAvailable !== false
CanAddFilesUnlessFalse == ffmpegAvailable # "false"

\* App.tsx:285: the add-files button is enabled
CanAddFiles == ffmpegAvailable = "true"

\* App.tsx:87-110: the dialog returns sel and the loop over it starts
HandleSelectFiles(sel) ==
    /\ CanAddFiles
    /\ nextId <= MaxIds                \* bound: no dialog once the ids are used up
    /\ \E k \in DOMAIN picks :
        /\ ~Probing(k)
        /\ \A j \in 1..(k - 1) : Probing(j)
        /\ picks' = [picks EXCEPT ![k] = [sel |-> sel, pos |-> 1]]
    /\ UNCHANGED <<files, outputDir, ffmpegAvailable, isConverting, batch, waiting, listenerVars,
                   nextId, conv, requested, disk, deleteJob,
                   planVars, scriptVars>>

\* variant of ProbeFailed with the try around the loop: a failure ends the loop
ProbeFailedAborts(k) ==
    /\ Probing(k)
    /\ ~Probeable(Current(k))
    /\ picks' = [picks EXCEPT ![k] = NoPick]
    /\ UNCHANGED <<files, outputDir, ffmpegAvailable, isConverting, batch, waiting,
                   listenerVars, nextId, conv, requested, disk, deleteJob,
                   planVars, scriptVars>>

\* App.tsx:126-128: the probe of the next path failed; the loop goes on
ProbeFailed(k) ==
    /\ Probing(k)
    /\ ~Probeable(Current(k))
    /\ Advance(k)
    /\ UNCHANGED <<files, outputDir, ffmpegAvailable, isConverting, batch, waiting, listenerVars,
                   nextId, conv, requested, disk, deleteJob,
                   planVars, scriptVars>>

\* App.tsx:113-125: the probe of the next path succeeded
ProbeSucceeded(k) ==
    /\ Probing(k)
    /\ Probeable(Current(k))
    /\ LET path == Current(k)
           newFiles == AddFile(files, NewFile(path, nextId))
       IN IF newFiles = files
          THEN UNCHANGED <<files, listenerVars, nextId>>
          ELSE /\ nextId <= MaxIds     \* bound: MaxIds entries are ever created
               /\ SetFiles(newFiles)
               /\ nextId' = nextId + 1
    /\ Advance(k)
    /\ UNCHANGED <<outputDir, ffmpegAvailable, isConverting, batch, waiting, conv, requested,
                   disk, deleteJob,
                   planVars, scriptVars>>

\* variant of HandleSelectOutputDir without the test of App.tsx:139
HandleSelectOutputDirUnchecked(selected) ==
    /\ outputDir' = selected
    /\ UNCHANGED <<files, ffmpegAvailable, isConverting, batch, waiting, listenerVars, picks,
                   nextId, conv, requested, disk, deleteJob,
                   planVars, scriptVars>>

\* App.tsx:133-142: the directory dialog returns selected; a cancelled dialog
\* leaves the output directory as it is
HandleSelectOutputDir(selected) ==
    /\ outputDir' = IF selected # NoSelection THEN selected ELSE outputDir
    /\ UNCHANGED <<files, ffmpegAvailable, isConverting, batch, waiting, listenerVars, picks,
                   nextId, conv, requested, disk, deleteJob,
                   planVars, scriptVars>>

\* App.tsx:144-148, checkbox of App.tsx:387-391
ToggleFileSelection(id) ==
    /\ InList(files, id)
    /\ SetFiles(ToggleSelected(files, id))
    /\ UNCHANGED <<outputDir, ffmpegAvailable, isConverting, batch, waiting, picks, nextId, conv,
                   requested, disk, deleteJob,
                   planVars, scriptVars>>

\* App.tsx:150-153, checkbox of App.tsx:357-362
ToggleSelectAll ==
    /\ files # <<>>
    /\ SetFiles(ToggleAll(files))
    /\ UNCHANGED <<outputDir, ffmpegAvailable, isConverting, batch, waiting, picks, nextId, conv,
                   requested, disk, deleteJob,
                   planVars, scriptVars>>

----------------------------------------------------------------------------
(* Conversion, App.tsx:155-229 *)

\* the request counter of every file of todo goes up by one
Count(r, todo) ==
    [id \in Ids |->
        IF \E i \in DOMAIN todo : todo[i].id = id THEN Min(r[id] + 1, MaxRequests) ELSE r[id]]

\* variant of Submit that awaits each conversion before starting the next
SubmitFirstOnly(todo) ==
    /\ outputDir # ""
    /\ SetFiles(MarkConverting(files, Head(todo).id))
    /\ LET started == StartEach(<<Head(todo)>>, conv, disk)
       IN /\ conv' = started.conv
          /\ disk' = started.disk
    /\ requested' = Count(requested, <<Head(todo)>>)

\* App.tsx:161-172 for every file of todo: mark it converting and issue
\* cmd_convert_video; all of it happens before the first await returns
Submit(todo) ==
    /\ outputDir # ""
    /\ SetFiles(MarkAll(files, todo))
    /\ LET started == StartEach(todo, conv, disk)
       IN /\ conv' = started.conv
          /\ disk' = started.disk
    /\ requested' = Count(requested, todo)

\* App.tsx:438-446: the per-file convert button, then App.tsx:155-172
ConvertSingleFile(id) ==
    /\ InList(files, id)
    /\ Entry(files, id).status = "pending"
    /\ ~isConverting
    /\ outputDir # ""
    /\ Submit(<<Entry(files, id)>>)
    /\ UNCHANGED <<outputDir, ffmpegAvailable, isConverting, batch, waiting, picks,
                   nextId, deleteJob,
                   planVars, scriptVars>>

\* App.tsx:205-208 and 224-226: setIsConverting(true), then every
\* convertSingleFile of the batch runs up to its await
StartBatch(todo) ==
    /\ todo # <<>>
    /\ isConverting' = TRUE
    /\ batch' = {todo[i].id : i \in DOMAIN todo}
    /\ waiting' = batch'
    /\ Submit(todo)

\* App.tsx:297-300 (button) and App.tsx:192-208
ConvertSelectedFiles ==
    /\ ffmpegAvailable = "true"
    /\ SelectedCount(files) > 0
    /\ ~isConverting
    /\ outputDir # ""
    /\ StartBatch(SelectedPending(files))
    /\ UNCHANGED <<outputDir, ffmpegAvailable, picks, nextId, deleteJob,
                   planVars, scriptVars>>

\* App.tsx:312-315 (button) and App.tsx:213-226
ConvertAllFiles ==
    /\ ffmpegAvailable = "true"
    /\ PendingCount(files) > 0
    /\ ~isConverting
    /\ outputDir # ""
    /\ StartBatch(PendingFiles(files))
    /\ UNCHANGED <<outputDir, ffmpegAvailable, picks, nextId, deleteJob,
                   planVars, scriptVars>>

\* App.tsx:208-210 and 226-228: Promise.all settles with the last promise of
\* the batch, and setIsConverting(false) follows
SettleBatch(id) ==
    IF id \in waiting
    THEN /\ waiting' = waiting \ {id}
         /\ isConverting' = (waiting # {id})
         /\ batch' = IF waiting = {id} THEN {} ELSE batch
    ELSE UNCHANGED <<isConverting, batch, waiting>>

\* spec 4.4: the transcode process of task id exits
BackendFinish(id, ok) ==
    /\ conv[id].phase = "running"
    /\ conv' = [conv EXCEPT ![id].phase = IF ok THEN "ok" ELSE "err"]
    /\ disk' = IF ok THEN disk ELSE disk \ {conv[id].out}
    /\ UNCHANGED <<files, outputDir, ffmpegAvailable, isConverting, batch, waiting, listenerVars,
                   picks, nextId, requested, deleteJob,
                   planVars, scriptVars>>

\* spec 4.4 progress update: an event with progress p, not below the last one
ProgressEvent(id, p) ==
    /\ conv[id].phase # "none"
    /\ ~conv[id].done
    /\ p >= conv[id].sent
    /\ conv' = [conv EXCEPT ![id].sent = p]
    /\ Deliver(id, ProgressPayload(p))
    /\ UNCHANGED <<outputDir, ffmpegAvailable, isConverting, batch, waiting, picks, nextId,
                   requested, disk, deleteJob,
                   planVars, scriptVars>>

\* spec 5: the terminal event, the last event of task id
TerminalEvent(id) ==
    /\ conv[id].phase \in {"ok", "err"}
    /\ ~conv[id].done
    /\ conv' = [conv EXCEPT ![id].done = TRUE]
    /\ Deliver(id, TerminalPayload(conv[id]))
    /\ UNCHANGED <<outputDir, ffmpegAvailable, isConverting, batch, waiting, picks, nextId,
                   requested, disk, deleteJob,
                   planVars, scriptVars>>

\* App.tsx:174-180: the invoke of task id resolves with the output path
ConvertResolved(id) ==
    /\ conv[id].phase = "ok"
    /\ ~conv[id].result
    /\ conv' = [conv EXCEPT ![id].result = TRUE]
    /\ SetFiles(ApplyCompleted(files, id, conv[id].out))
    /\ SettleBatch(id)
    /\ UNCHANGED <<outputDir, ffmpegAvailable, picks, nextId, requested, disk, deleteJob,
                   planVars, scriptVars>>

\* App.tsx:181-189: the invoke of task id rejects
ConvertRejected(id) ==
    /\ conv[id].phase = "err"
    /\ ~conv[id].result
    /\ conv' = [conv EXCEPT ![id].result = TRUE]
    /\ SetFiles(ApplyError(files, id))
    /\ SettleBatch(id)
    /\ UNCHANGED <<outputDir, ffmpegAvailable, picks, nextId, requested, disk, deleteJob,
                   planVars, scriptVars>>

----------------------------------------------------------------------------
(* Removing entries *)

\* App.tsx:447-453 (an entry that is not completed) and App.tsx:250-252
RemoveFromList(id) ==
    /\ InList(files, id)
    /\ Entry(files, id).status # "completed"
    /\ SetFiles(RemoveById(files, id))
    /\ UNCHANGED <<outputDir, ffmpegAvailable, isConverting, batch, waiting, picks, nextId, conv,
                   requested, disk, deleteJob,
                   planVars, scriptVars>>

\* variant of Snapshot for a deleteFile without the completed branch
SnapshotListOnly(f) == [id |-> f.id, out |-> NoPath]

\* App.tsx:233: what deleteFile reads of its argument: the id, and the output
\* file to delete when the entry is completed
Snapshot(f) ==
    [id |-> f.id, out |-> IF f.status = "completed" THEN f.outputPath ELSE NoPath]

\* App.tsx:244
SelectedFiles(fs) == SelectSeq(fs, LAMBDA f : f.selected)

\* App.tsx:245-247: the loop runs on without waiting over snapshots that need
\* no cmd_delete_file; what is left starts with one that does
RECURSIVE DrainJob(_)
DrainJob(job) ==
    IF job = <<>> \/ Head(job).out # NoPath THEN job ELSE DrainJob(Tail(job))

\* App.tsx:240 for the snapshots DrainJob passes over
RECURSIVE DrainFiles(_, _)
DrainFiles(fs, job) ==
    IF job = <<>> \/ Head(job).out # NoPath THEN fs
    ELSE DrainFiles(RemoveById(fs, Head(job).id), Tail(job))

\* deleteFile for the snapshots of job, up to the first cmd_delete_file
StartDelete(job) ==
    /\ deleteJob = <<>>                \* bound: one delete in progress at a time
    /\ deleteJob' = DrainJob(job)
    /\ IF Head(job).out # NoPath
       THEN UNCHANGED <<files, listenerVars>>
       ELSE SetFiles(DrainFiles(files, job))

\* App.tsx:447-451 (a completed entry) and App.tsx:231-235
DeleteFile(id) ==
    /\ InList(files, id)
    /\ Entry(files, id).status = "completed"
    /\ StartDelete(<<Snapshot(Entry(files, id))>>)
    /\ UNCHANGED <<outputDir, ffmpegAvailable, isConverting, batch, waiting, picks, nextId, conv,
                   requested, disk,
                   planVars, scriptVars>>

\* App.tsx:327-330 (button) and App.tsx:243-248
DeleteSelectedFiles ==
    /\ SelectedCount(files) > 0
    /\ ~isConverting
    /\ StartDelete([i \in DOMAIN SelectedFiles(files) |-> Snapshot(SelectedFiles(files)[i])])
    /\ UNCHANGED <<outputDir, ffmpegAvailable, isConverting, batch, waiting, picks, nextId, conv,
                   requested, disk,
                   planVars, scriptVars>>

\* variant of DeleteSettled with the filter inside the try: a failed
\* cmd_delete_file ends deleteFile before the entry is filtered out
DeleteSettledKeepsOnFailure(ok) ==
    /\ deleteJob # <<>>
    /\ disk' = IF ok THEN disk \ {Head(deleteJob).out} ELSE disk
    /\ SetFiles(DrainFiles(IF ok THEN RemoveById(files, Head(deleteJob).id) ELSE files,
                           Tail(deleteJob)))
    /\ deleteJob' = DrainJob(Tail(deleteJob))
    /\ UNCHANGED <<outputDir, ffmpegAvailable, isConverting, batch, waiting, picks, nextId, conv,
                   requested,
                   planVars, scriptVars>>

\* App.tsx:235-240: cmd_delete_file settles (ok: the file is gone), the entry
\* is filtered out and the loop goes on
DeleteSettled(ok) ==
    /\ deleteJob # <<>>
    /\ disk' = IF ok THEN disk \ {Head(deleteJob).out} ELSE disk
    /\ SetFiles(DrainFiles(RemoveById(files, Head(deleteJob).id), Tail(deleteJob)))
    /\ deleteJob' = DrainJob(Tail(deleteJob))
    /\ UNCHANGED <<outputDir, ffmpegAvailable, isConverting, batch, waiting, picks, nextId, conv,
                   requested,
                   planVars, scriptVars>>


----------------------------------------------------------------------------

Next ==
    \/ \E ok \in BOOLEAN : CheckFfmpeg(ok)
    \/ \E sel \in PickChoices : HandleSelectFiles(sel)
    \/ \E k \in DOMAIN picks : ProbeFailed(k)
    \/ \E k \in DOMAIN picks : ProbeSucceeded(k)
    \/ \E d \in DirChoices : HandleSelectOutputDir(d)
    \/ \E id \in Ids : ToggleFileSelection(id)
    \/ ToggleSelectAll
    \/ \E id \in Ids : ConvertSingleFile(id)
    \/ ConvertSelectedFiles
    \/ ConvertAllFiles
    \/ \E id \in Ids, ok \in BOOLEAN : BackendFinish(id, ok)
    \/ \E id \in Ids, p \in ProgressValues : ProgressEvent(id, p)
    \/ \E id \in Ids : TerminalEvent(id)
    \/ \E id \in Ids : ConvertResolved(id)
    \/ \E id \in Ids : ConvertRejected(id)
    \/ \E id \in Ids : RemoveFromList(id)
    \/ \E id \in Ids : DeleteFile(id)
    \/ DeleteSelectedFiles
    \/ \E ok \in BOOLEAN : DeleteSettled(ok)

Spec == Init /\ [][Next]_vars

----------------------------------------------------------------------------
(* Runs of the binary-download script on every machine of Hosts.           *)

ScriptInit ==
    /\ AppInit
    /\ PlanIdle
    /\ host \in Hosts
    /\ binaries \in BinariesBefore(GetTarget(host.arch, host.platform))
    /\ script = IdleScript

ScriptNext ==
    \/ StartScript
    \/ MakeDir
    \/ CheckExisting
    \/ CheckPlatform
    \/ Locate
    \/ VerifySources
    \/ \E ok \in BOOLEAN : CopyFfmpeg(ok)
    \/ \E ok \in BOOLEAN : CopyFfprobe(ok)

ScriptSpec == ScriptInit /\ [][ScriptNext]_vars

----------------------------------------------------------------------------
(* The application with MaxLoops add-files loops in progress at once.      *)
(* Conversions settle through the reply of their invoke; the progress      *)
(* events, which change no path and no id of the list, are left out.       *)

LoopsInit ==
    /\ files = <<>>
    /\ outputDir = ""
    /\ ffmpegAvailable = "null"
    /\ isConverting = FALSE
    /\ batch = {}
    /\ waiting = {}
    /\ pendingListen = {}
    /\ staleListen = {}
    /\ orphaned = {}
    /\ picks = [k \in 1..MaxLoops |-> NoPick]
    /\ nextId = 1
    /\ conv = [id \in Ids |-> NoTask]
    /\ requested = [id \in Ids |-> 0]
    /\ disk = {}
    /\ deleteJob = <<>>
    /\ PlanIdle
    /\ ScriptIdle

LoopsNext ==
    \/ \E ok \in BOOLEAN : CheckFfmpeg(ok)
    \/ \E sel \in PickChoices : HandleSelectFiles(sel)
    \/ \E k \in DOMAIN picks : ProbeFailed(k)
    \/ \E k \in DOMAIN picks : ProbeSucceeded(k)
    \/ \E d \in DirChoices : HandleSelectOutputDir(d)
    \/ \E id \in Ids : ToggleFileSelection(id)
    \/ ToggleSelectAll
    \/ \E id \in Ids : ConvertSingleFile(id)
    \/ ConvertSelectedFiles
    \/ ConvertAllFiles
    \/ \E id \in Ids, ok \in BOOLEAN : BackendFinish(id, ok)
    \/ \E id \in Ids : ConvertResolved(id)
    \/ \E id \in Ids : ConvertRejected(id)
    \/ \E id \in Ids : RemoveFromList(id)
    \/ \E id \in Ids : DeleteFile(id)
    \/ DeleteSelectedFiles
    \/ \E ok \in BOOLEAN : DeleteSettled(ok)

LoopsSpec == LoopsInit /\ [][LoopsNext]_vars

----------------------------------------------------------------------------
(* One probe-classify-plan run of the back end, modelled from the          *)
(* specification (4.1-4.3): the prober has produced a descriptor, classify *)
(* computes needs_conversion, build_plan computes the plan.                *)

PlanInit ==
    /\ AppInit
    /\ ScriptIdle
    /\ descriptor \in Descriptors
    /\ host_caps \in BOOLEAN
    /\ needs_conversion = <<>>
    /\ plan = <<>>

\* spec 4.2: the descriptor is classified
ClassifyStep ==
    /\ needs_conversion = <<>>
    /\ needs_conversion' = <<Classify(descriptor)>>
    /\ UNCHANGED <<appVars, scriptVars, descriptor, host_caps, plan>>

\* spec 4.3: the plan is built from the classification and the host's encoder
BuildPlanStep ==
    /\ needs_conversion # <<>>
    /\ plan = <<>>
    /\ plan' = <<BuildPlan(needs_conversion[1], host_caps)>>
    /\ UNCHANGED <<appVars, scriptVars, descriptor, host_caps, needs_conversion>>

PlanNext ==
    \/ ClassifyStep
    \/ BuildPlanStep

PlanSpec == PlanInit /\ [][PlanNext]_vars

----------------------------------------------------------------------------
(* Properties *)

Status(fs, id) == Entry(fs, id).status

Terminal(st) == st \in {"completed", "error"}

\* the entry of id is listed before and after the step
Kept(id) == InList(files, id) /\ InList(files', id)

\* a cmd_convert_video request for id is issued in this step
Requests(id) == requested'[id] # requested[id]

\* C1: once an entry is completed or error, no step changes its status
\* while it stays in the list.
C1_TerminalIsFinal ==
    [][\A id \in Ids :
          (Kept(id) /\ Terminal(Status(files, id)))
              => Status(files', id) = Status(files, id)]_vars

\* C2: from the start of its conversion on, the progress of an entry never
\* decreases while it stays in the list.
C2_ProgressNeverDecreases ==
    [][\A id \in Ids :
          (Kept(id) /\ conv[id].phase # "none")
              => Entry(files', id).progress >= Entry(files, id).progress]_vars

\* C3: every completed entry has progress 100 and a known output path.
C3_CompletedHasOutput ==
    \A i \in DOMAIN files :
        files[i].status = "completed"
            => files[i].progress = Full /\ files[i].outputPath # NoPath

\* a completed entry, completed by the terminal event before the invoke resolved
C3_Witness ==
    \E i \in DOMAIN files :
        /\ files[i].status = "completed"
        /\ ~conv[files[i].id].result

\* the invoke of id rejects in this step
Rejects(id) == conv[id].phase = "err" /\ ~conv[id].result /\ conv'[id].result

\* the invoke of id resolves in this step
Resolves(id) == conv[id].phase = "ok" /\ ~conv[id].result /\ conv'[id].result

\* the conversion of id has settled and none of its events is still to come
Settled(id) == conv[id].result /\ conv[id].done

\* every task and every entry other than id's is the same after the step
OthersUntouched(id) ==
    \A other \in Ids \ {id} :
        /\ conv'[other] = conv[other]
        /\ InList(files, other) =>
              /\ InList(files', other)
              /\ Entry(files', other) = Entry(files, other)

\* C4: when the conversion of one file settles, failed or not, every other
\* task and every other entry stay as they were, and the file's own entry,
\* if still listed, takes the status of its own outcome: error when the
\* conversion failed, completed when it succeeded.
C4_FailureIsIsolated ==
    [][\A id \in Ids :
          /\ Rejects(id) =>
                /\ OthersUntouched(id)
                /\ InList(files, id) => Status(files', id) = "error"
          /\ Resolves(id) =>
                /\ OthersUntouched(id)
                /\ InList(files, id) => Status(files', id) = "completed"]_vars

\* a batch of two whose first file has failed while the other one completed
C4_Witness ==
    \E a, b \in Ids :
        /\ a # b
        /\ batch = {a, b}
        /\ waiting = {b}
        /\ conv[a].phase = "err" /\ Settled(a)
        /\ InList(files, a) /\ Status(files, a) = "error"
        /\ conv[b].phase = "ok" /\ conv[b].done
        /\ InList(files, b) /\ Status(files, b) = "completed"

\* C5: a conversion is requested only for a listed entry that is pending
\* and whose task id has not been requested before.
C5_RequestedAtMostOnce ==
    [][\A id \in Ids : Requests(id) =>
          /\ requested[id] = 0
          /\ InList(files, id)
          /\ Status(files, id) = "pending"]_vars

\* a failed file stays failed while another batch is started
C5_Witness ==
    \E a, b \in Ids :
        /\ InList(files, a) /\ Status(files, a) = "error" /\ Settled(a)
        /\ requested[a] = 1
        /\ isConverting /\ waiting = {b} /\ a \notin batch

\* a batch starts in this step
BatchStarts == ~isConverting /\ isConverting'

\* C6: the step that starts a batch issues the request of every eligible
\* pending file (all pending files, or the selected pending ones) and leaves
\* all of them converting with their tasks running.
C6_BatchStartsAll ==
    [][BatchStarts =>
          LET pending == {files[i].id : i \in {j \in DOMAIN files : files[j].status = "pending"}}
              chosen == {files[i].id : i \in {j \in DOMAIN files :
                                files[j].status = "pending" /\ files[j].selected}}
          IN /\ batch' \in {pending, chosen}
             /\ batch' # {}
             /\ \A id \in batch' :
                   /\ Requests(id)
                   /\ Status(files', id) = "converting"
                   /\ conv'[id].phase = "running"]_vars

\* a batch of two files, both converting at the same time
C6_Witness ==
    /\ isConverting
    /\ Cardinality(batch) = 2
    /\ \A id \in batch :
          /\ InList(files, id)
          /\ Status(files, id) = "converting"
          /\ conv[id].phase = "running"

\* the task of id is running although its entry has been taken off the list
Abandoned(id) == conv[id].phase = "running" /\ ~InList(files, id)

\* C7: a running task whose entry was taken off the list is cancelled: it
\* never goes on to complete and leave an output file.
C7_CancelledLeavesNoOutput ==
    [][\A id \in Ids : Abandoned(id) =>
          ~(conv'[id].phase = "ok" /\ conv'[id].out \in disk')]_vars

\* the probe of slot k settles in this step
ProbeSettles(k) == Probing(k) /\ picks'[k] # picks[k]

\* C8: when the probe of a picked path settles, a readable path that is not
\* listed yet is appended as a pending entry with progress 0, any other
\* path leaves the list as it is, and in both cases the loop goes on with
\* the next picked path.
C8_ProbeFailureIsPerFile ==
    [][\A k \in 1..MaxPicks : ProbeSettles(k) =>
          LET path == picks[k].sel[picks[k].pos]
              last == picks[k].pos = Len(picks[k].sel)
          IN /\ IF last THEN picks'[k].sel = <<>>
                ELSE picks'[k] = [sel |-> picks[k].sel, pos |-> picks[k].pos + 1]
             /\ IF path \in GoodPaths /\ path \notin PathsOf(files)
                THEN /\ Len(files') = Len(files) + 1
                     /\ SubSeq(files', 1, Len(files)) = files
                     /\ files'[Len(files')].path = path
                     /\ files'[Len(files')].status = "pending"
                     /\ files'[Len(files')].progress = 0
                ELSE files' = files]_vars

\* the first path of a pick failed to probe and the loop is at the second one
C8_Witness ==
    \E k \in 1..MaxPicks :
        /\ Len(picks[k].sel) = 2
        /\ picks[k].sel[1] \in BadPaths
        /\ picks[k].sel[2] \in GoodPaths
        /\ picks[k].pos = 2

\* C9: once the tool check has answered false, no probe is in flight, no
\* conversion has been requested, and the answer stays false.
C9_MissingToolIsFatal ==
    /\ [](ffmpegAvailable = "false" =>
              /\ \A k \in 1..MaxPicks : ~Probing(k)
              /\ \A id \in Ids : requested[id] = 0 /\ conv[id].phase = "none"
              /\ files = <<>>)
    /\ [][ffmpegAvailable = "false" => ffmpegAvailable' = "false"]_vars

\* the tool is missing and the user has chosen an output directory
C9_Witness == ffmpegAvailable = "false" /\ outputDir # ""

C11_ClassifyPolicy ==
    needs_conversion # <<>> =>
        LET d == descriptor
            r == needs_conversion[1]
        IN /\ r \in BOOLEAN
           /\ (d.video = "h264" /\ d.audio = "aac" /\ d.container = "mp4") => r = FALSE
           /\ (d.video # "h264" \/ d.audio \in AudioCodecs \ {"aac", NoAudio}
                  \/ d.container # "mp4") => r = TRUE
           /\ d.audio = NoAudio => (r = (d.video # "h264" \/ d.container # "mp4"))

\* an H.264 file in MP4 without an audio stream has been classified
C11_Witness ==
    /\ needs_conversion = <<FALSE>>
    /\ descriptor = [video |-> "h264", audio |-> NoAudio, container |-> "mp4"]

\* C12: the mode of a plan is copy exactly when needs_conversion is false,
\* hardware_encode exactly when conversion is needed and the host has a
\* hardware encoder, software_encode exactly when conversion is needed and
\* it has none, and the arguments of every plan hold the fast-start flag.
C12_PlanDecisionOrder ==
    plan # <<>> =>
        LET needs == needs_conversion[1]
            p == plan[1]
        IN /\ p.mode \in {"copy", "hardware_encode", "software_encode"}
           /\ (p.mode = "copy") = ~needs
           /\ (p.mode = "hardware_encode") = (needs /\ host_caps)
           /\ (p.mode = "software_encode") = (needs /\ ~host_caps)
           /\ \E i \in DOMAIN p.args : p.args[i] = "+faststart"

\* a compatible file on a host with a hardware encoder has got its plan
C12_Witness ==
    /\ plan # <<>>
    /\ needs_conversion = <<FALSE>>
    /\ host_caps
    /\ plan[1].mode = "copy"

\* the entry of id leaves the list in this step
Removed(id) == InList(files, id) /\ ~InList(files', id)

\* the snapshots of a delete job that wait for no cmd_delete_file
Plain(job) == {job[i].id : i \in {j \in DOMAIN job : job[j].out = NoPath}}

C14_NoListenerOutlivesEntry ==
    \A id \in Ids :
        ~(InList(files, id) /\ Status(files, id) = "converting") => id \notin orphaned

\* an event of task id is emitted in this step (a progress event that moves
\* the task's progress, or the terminal event)
EventFor(id) == conv'[id].sent # conv[id].sent \/ (~conv[id].done /\ conv'[id].done)

\* C15: a step in which an event of task id is emitted, or in which the
\* invoke of task id resolves or rejects, leaves the list with the same
\* entries in the same order, changes no entry other than the one with that
\* id, and changes nothing when no entry has that id.
C15_EventTouchesOwnEntryOnly ==
    [][\A id \in Ids : (EventFor(id) \/ Resolves(id) \/ Rejects(id)) =>
          /\ Len(files') = Len(files)
          /\ \A i \in DOMAIN files :
                /\ files'[i].id = files[i].id
                /\ files[i].id # id => files'[i] = files[i]
          /\ ~InList(files, id) => files' = files]_vars

\* the entry of a running task is off the list, another entry is listed, and
\* a listener that outlived its effect has handled a progress event of the task
C15_Witness ==
    \E id \in Ids :
        /\ ~InList(files, id)
        /\ files # <<>>
        /\ conv[id].phase = "running"
        /\ conv[id].sent > 0
        /\ id \in orphaned

\* C16: no two entries of the list have the same input path, and no two
\* have the same task id.
C16_NoDuplicateEntries ==
    \A i, j \in DOMAIN files :
        i # j => files[i].path # files[j].path /\ files[i].id # files[j].id

\* two add-files loops are in progress that both began with the same path;
\* its probe has succeeded in both, and the list holds it once
C16_Witness ==
    /\ Len(picks) >= 2
    /\ picks[1].pos = 2 /\ Len(picks[1].sel) = 2
    /\ picks[2].pos = 2 /\ Len(picks[2].sel) = 2
    /\ picks[1].sel[1] = picks[2].sel[1]
    /\ picks[1].sel[1] \in GoodPaths
    /\ Len(files) = 1
    /\ files[1].path = picks[1].sel[1]

\* C17: the flag is set exactly while a conversion of the batch is unsettled,
\* no conversion is requested while it is set, and while it is clear no
\* entry is converting.
C17_FlagCoversConversions ==
    /\ [](isConverting = (waiting # {}))
    /\ [][isConverting => \A id \in Ids : ~Requests(id)]_vars
    /\ [](~isConverting => \A i \in DOMAIN files : files[i].status # "converting")

\* C18: while no output directory is chosen no conversion has been requested
\* and every entry is pending with progress 0; a step taken in such a state
\* requests no conversion and changes the status and progress of no entry;
\* and a chosen output directory is never reset to empty.
C18_NoConversionWithoutOutputDir ==
    /\ [](outputDir = "" =>
              /\ \A id \in Ids : requested[id] = 0 /\ conv[id].phase = "none"
              /\ \A i \in DOMAIN files :
                    files[i].status = "pending" /\ files[i].progress = 0)
    /\ [][outputDir = "" =>
              \A id \in Ids :
                  /\ ~Requests(id)
                  /\ Kept(id) =>
                        /\ Status(files', id) = Status(files, id)
                        /\ Entry(files', id).progress = Entry(files, id).progress]_vars
    /\ [][outputDir # "" => outputDir' # ""]_vars

\* the tool is there and a pending entry is selected, so that only the
\* missing output directory keeps the convert actions from converting it
C18_Witness ==
    /\ outputDir = ""
    /\ ffmpegAvailable = "true"
    /\ ~isConverting
    /\ \E i \in DOMAIN files : files[i].status = "pending" /\ files[i].selected

\* the ids of the snapshots of a delete job
JobIds(job) == {job[i].id : i \in DOMAIN job}

\* the ids of the selected entries
SelectedIds(fs) == {fs[i].id : i \in {j \in DOMAIN fs : fs[j].selected}}

\* the ids of the entries that leave the list in this step
Leaving == IdsOf(files) \ IdsOf(files')

\* the list after the step is the list before it without the leaving entries
OnlyFiltered == files' = SelectSeq(files, LAMBDA f : f.id \notin Leaving)

\* C19: when a delete is invoked, the entries it removes at once and those
\* it still has to remove are together the selected entries (delete-selected)
\* or the one completed entry of the clicked delete button; when a
\* cmd_delete_file request settles, failed or not, its entry leaves the list
\* and so does every entry that leaves the job; and a step that takes
\* entries off the list leaves all other entries as they were, in order.
C19_DeleteAlwaysRemoves ==
    [][/\ (deleteJob = <<>> /\ deleteJob' # <<>>) =>
              /\ \/ Leaving \cup JobIds(deleteJob') = SelectedIds(files)
                 \/ \E id \in Ids : /\ Leaving \cup JobIds(deleteJob') = {id}
                                     /\ Status(files, id) = "completed"
              /\ OnlyFiltered
       /\ (deleteJob # <<>> /\ deleteJob' # deleteJob) =>
              /\ ~InList(files', Head(deleteJob).id)
              /\ JobIds(deleteJob') \subseteq JobIds(deleteJob)
              /\ \A id \in JobIds(deleteJob) \ JobIds(deleteJob') : ~InList(files', id)
              /\ Leaving \subseteq JobIds(deleteJob)
              /\ OnlyFiltered
       /\ Leaving # {} => OnlyFiltered]_vars

\* delete-selected goes on with its second request after the first one
\* failed: the first entry is off the list and its output file still exists
C19_Witness ==
    \E id \in Ids :
        /\ Len(deleteJob) = 1
        /\ deleteJob[1].id # id
        /\ InList(files, deleteJob[1].id)
        /\ Entry(files, deleteJob[1].id).selected
        /\ ~InList(files, id)
        /\ conv[id].phase = "ok" /\ conv[id].result /\ conv[id].done
        /\ conv[id].out \in disk

\* C20: a run that starts with both destination binaries in place copies
\* nothing, leaves every file as it was and exits with status 0; a run that
\* exits with status 0 leaves both binaries in place, so the run after a
\* successful one is such a run; and a run that exits with a non-zero status
\* because the platform is not supported, no source could be located or a
\* source binary is missing has copied nothing; and a run that needs the
\* binaries on a platform that is not supported, or with a source binary
\* missing, exits with a non-zero status.
C20_ScriptIdempotent ==
    LET target == GetTarget(host.arch, host.platform)
    IN /\ (script.pc # "idle" /\ BothExist(script.before, target)) =>
              /\ binaries = script.before
              /\ script.copied = {}
              /\ script.pc = "exited" => script.status = 0
       /\ (script.pc = "exited" /\ script.status = 0) => BothExist(binaries, target)
       /\ (script.pc # "idle" /\ script.last = "ok") =>
              /\ binaries = script.before
              /\ script.copied = {}
              /\ script.pc = "exited" => script.status = 0
       /\ (script.pc = "exited" /\ script.status # 0 /\ script.why # "copy") =>
              /\ script.copied = {}
              /\ binaries \ {BinariesDir} = script.before \ {BinariesDir}
       /\ (/\ script.pc = "exited"
           /\ ~BothExist(script.before, target)
           /\ host.platform # "darwin" \/ ~host.ffmpegSrc \/ ~host.ffprobeSrc) =>
              /\ script.status # 0
              /\ script.copied = {}

\* the second run has ended; the first run copied both binaries, the second
\* one copied nothing
C20_Witness ==
    /\ script.run = 2
    /\ script.pc = "exited"
    /\ script.last = "ok"
    /\ BothExist(script.made, GetTarget(host.arch, host.platform))
    /\ script.copied = {}

====
